---- MODULE Spec2Model ----
(***************************************************************************)
(* A model of goblin.driver.pool: ConnectionPool and PooledConnection.     *)
(*                                                                         *)
(* The pool runs on one asyncio event loop, so the code between two awaits *)
(* is one atomic step.  The suspension points of the code are              *)
(*   - `async with self._condition` (waiting for the condition's lock),    *)
(*   - `await self._get_connection(...)` in acquire (lock held) and in     *)
(*     init_pool (no lock),                                                *)
(*   - `await self._condition.wait()` (lock released, then re-acquired),   *)
(*   - `await asyncio.gather(...)` in close.                               *)
(* release() and the draining loops of close() are synchronous and take no *)
(* lock.  The Connection is an external collaborator: it can report closed *)
(* at any moment, its open and its close can fail.                         *)
(*                                                                         *)
(* asyncio serves the waiters of a lock and of a condition in FIFO order;  *)
(* the model lets any of them be served (every FIFO schedule is one of its *)
(* behaviours), which is also what the specification allows.               *)
(***************************************************************************)
EXTENDS Integers, Sequences, FiniteSets

\* ------------------------------------------------------------------ bounds

NumTasks == 3        \* caller tasks of the general specification
MaxConnIds == 3      \* connections the factory opens in one behaviour
MaxNotify == 2       \* scheduled _notify tasks that have not run yet
MaxConnsBound == 2   \* max_conns is drawn from 1..MaxConnsBound
MaxTimesBound == 2   \* max_times_acquired is drawn from 1..MaxTimesBound
CloseTasks == 2      \* caller tasks of the specification with close()

VARIABLES
    max_conns,            \* ConnectionPool._max_conns
    min_conns,            \* ConnectionPool._min_conns
    max_times_acquired,   \* ConnectionPool._max_times_acquired
    n_tasks,              \* number of caller tasks sharing the pool
    available,            \* ConnectionPool._available (deque, left = head)
    acquired,             \* ConnectionPool._acquired  (deque, left = head)
    times_acquired,       \* PooledConnection._times_acquired, per connection
    closed,               \* Connection.closed, per connection
    conn_none,            \* connections whose PooledConnection._conn is None
    next_id,              \* identity of the next connection the factory opens
    locked,               \* owner of the condition's lock (0: free)
    notify_tasks,         \* _notify tasks created by release, not yet run
    pc,                   \* per caller: "idle", "lock", "opening", "waiting",
                          \*   "woken", "cancelling", "holding", "raised"
    held,                 \* per caller: the connection acquire returned (0: none)
    err,                  \* per caller: source line of the exception it got (0: none)
    init_pc,              \* init_pool: "idle", "opening", "done", "raised"
    init_i,               \* init_pool: connections opened so far (loop index)
    close_pc,             \* close: "idle", "closing", "done", "raised"
    waiters,              \* close: the connections it drained (local `waiters`)
    close_pending,        \* close: connections whose conn.close() is in flight
    hist                  \* history flags (observation only): "released",
                          \*   "wake_owed" (a release happened with an acquirer
                          \*   blocked, none woken since), "acquire_after_close",
                          \*   "init_after_close"

vars == <<max_conns, min_conns, max_times_acquired, n_tasks, available, acquired,
          times_acquired, closed, conn_none, next_id, locked, notify_tasks,
          pc, held, err, init_pc, init_i, close_pc, waiters, close_pending, hist>>

config == <<max_conns, min_conns, max_times_acquired, n_tasks>>
initv == <<init_pc, init_i>>
closev == <<close_pc, waiters, close_pending>>

Tasks == 1..n_tasks
ConnIds == 1..MaxConnIds

\* ------------------------------------------------------------ pure helpers

Range(s) == {s[i] : i \in 1..Len(s)}

\* collections.deque.remove(x): drops the first occurrence of x
Remove(s, x) ==
    LET i == CHOOSE k \in 1..Len(s) : s[k] = x /\ \A j \in 1..(k - 1) : s[j] # x
    IN  SubSeq(s, 1, i - 1) \o SubSeq(s, i + 1, Len(s))

\* PooledConnection.increment_acquired / decrement_acquired
increment_acquired(c) == [times_acquired EXCEPT ![c] = @ + 1]
decrement_acquired(c) == [times_acquired EXCEPT ![c] = @ - 1]

\* mutant: the reuse loop hands out the head of the queue without testing it
PopClosedMut(s) == s

\* the inner `while self._available` loop of acquire: what is left of the
\* deque once every closed entry at its head has been popped and discarded
RECURSIVE PopClosed(_)
PopClosed(s) ==
    IF s = <<>> THEN <<>>
    ELSE IF closed[Head(s)] THEN PopClosed(Tail(s)) ELSE s

\* mutant: the pass accepts an entry whose budget is already used up (<=)
ScanIndexMut(s) ==
    LET ok == {i \in 1..Len(s) : times_acquired[s[i]] <= max_times_acquired}
    IN  IF ok = {} THEN 0 ELSE CHOOSE i \in ok : \A j \in ok : i <= j

\* the `for x in range(len(self._acquired))` pass: position of the first entry
\* with times_acquired < max_times_acquired, 0 when the pass finds none
ScanIndex(s) ==
    LET ok == {i \in 1..Len(s) : times_acquired[s[i]] < max_times_acquired}
    IN  IF ok = {} THEN 0 ELSE CHOOSE i \in ok : \A j \in ok : i <= j

\* mutant: the pass returns the entry it found without rotating the deque
RotateMut(s, i) == s

\* the deque after the pass returned the entry at position i: the entries
\* examined before it were popped from the left and appended, then the entry
Rotate(s, i) == SubSeq(s, i + 1, Len(s)) \o SubSeq(s, 1, i - 1) \o <<s[i]>>

\* mutant: the create branch opens only while nothing is acquired
CreateGuardEmptyMut == Len(acquired) = 0

\* mutant: the create guard is off by one (<=)
CreateGuardMut == Len(acquired) <= max_conns

\* the guard of the create branch (line 184)
CreateGuard == Len(acquired) < max_conns

Flag(cond, f) == IF cond THEN {f} ELSE {}

\* ------------------------------------------------------------------- Init

InitWith(maxc, minc, maxt, nt) ==
    /\ max_conns = maxc
    /\ min_conns = minc
    /\ max_times_acquired = maxt
    /\ n_tasks = nt
    /\ available = <<>>
    /\ acquired = <<>>
    /\ times_acquired = [c \in ConnIds |-> 0]
    /\ closed = [c \in ConnIds |-> FALSE]
    /\ conn_none = {}
    /\ next_id = 1
    /\ locked = 0
    /\ notify_tasks = 0
    /\ pc = [t \in 1..nt |-> "idle"]
    /\ held = [t \in 1..nt |-> 0]
    /\ err = [t \in 1..nt |-> 0]
    /\ init_pc = "idle"
    /\ init_i = 0
    /\ close_pc = "idle"
    /\ waiters = {}
    /\ close_pending = {}
    /\ hist = {}

Init ==
    \E maxc \in 1..MaxConnsBound, maxt \in 1..MaxTimesBound :
        \E minc \in 0..maxc : InitWith(maxc, minc, maxt, NumTasks)

\* ------------------------------------------------------------- init_pool

\* history: a step of acquire ran after close began
AcquireFlags == Flag(close_pc # "idle", "acquire_after_close")

\* mutant: the loop of init_pool stops one open early
InitPoolDoneMut(i) == i + 1 >= min_conns

\* `for i in range(self._min_conns)` is over once i opens have been appended
InitPoolDone(i) == i = min_conns

\* init_pool() is called (the pool is not used again once close began)
InitPoolCall ==
    /\ init_pc = "idle"
    /\ close_pc = "idle"
    /\ init_pc' = IF InitPoolDone(0) THEN "done" ELSE "opening"
    /\ UNCHANGED <<config, available, acquired, times_acquired, closed, conn_none,
                   next_id, locked, notify_tasks, pc, held, err, init_i, closev, hist>>

\* _get_connection returned inside init_pool: append to available, next i
InitOpenDone ==
    /\ init_pc = "opening"
    /\ next_id <= MaxConnIds
    /\ available' = Append(available, next_id)
    /\ next_id' = next_id + 1
    /\ init_i' = init_i + 1
    /\ init_pc' = IF InitPoolDone(init_i + 1) THEN "done" ELSE "opening"
    /\ hist' = hist \cup Flag(close_pc # "idle", "init_after_close")
    /\ UNCHANGED <<config, acquired, times_acquired, closed, conn_none, locked,
                   notify_tasks, pc, held, err, closev>>

\* Connection.open raised inside init_pool: the exception leaves init_pool
InitOpenFail ==
    /\ init_pc = "opening"
    /\ init_pc' = "raised"
    /\ UNCHANGED <<config, available, acquired, times_acquired, closed, conn_none,
                   next_id, locked, notify_tasks, pc, held, err, init_i, closev, hist>>

\* ---------------------------------------------------------------- acquire

\* `return conn` leaves the `async with` block, which frees the lock
Return(t, conn) ==
    /\ pc' = [pc EXCEPT ![t] = "holding"]
    /\ held' = [held EXCEPT ![t] = conn]
    /\ locked' = 0

\* mutant: the lock is given up for the duration of the open
LockWhileOpeningMut(t) == 0

\* the lock while caller t awaits the open of the create branch: the await of
\* line 185 is inside the `async with` block, so the lock stays with t
LockWhileOpening(t) == t

\* one iteration of `while True` up to its return or its next await
Decide(t) ==
    LET rest == PopClosed(available) IN
    IF rest # <<>>
    THEN \* reuse (lines 178-183)
         /\ available' = Tail(rest)
         /\ times_acquired' = increment_acquired(Head(rest))
         /\ acquired' = Append(acquired, Head(rest))
         /\ Return(t, Head(rest))
    ELSE IF CreateGuard
    THEN \* create (lines 184-185): suspended in the open, lock held
         /\ available' = <<>>
         /\ pc' = [pc EXCEPT ![t] = "opening"]
         /\ locked' = LockWhileOpening(t)
         /\ UNCHANGED <<acquired, times_acquired, held>>
    ELSE IF ScanIndex(acquired) > 0
    THEN \* multiplex (lines 193-198)
         /\ available' = <<>>
         /\ times_acquired' = increment_acquired(acquired[ScanIndex(acquired)])
         /\ acquired' = Rotate(acquired, ScanIndex(acquired))
         /\ Return(t, acquired[ScanIndex(acquired)])
    ELSE \* wait (lines 200-201): the lock is released while waiting
         /\ available' = <<>>
         /\ pc' = [pc EXCEPT ![t] = "waiting"]
         /\ locked' = 0
         /\ UNCHANGED <<acquired, times_acquired, held>>

\* acquire() is called and reaches `async with self._condition`: with the
\* lock free and nobody queued for it the caller takes it without suspending
\* and runs the loop, otherwise it queues for the lock.  No caller starts an
\* acquire once close began ("must not be acquired from after close begins").
AcquireCall(t) ==
    /\ pc[t] = "idle"
    /\ close_pc = "idle"
    /\ IF locked = 0 /\ \A u \in Tasks : pc[u] # "lock"
       THEN Decide(t)
       ELSE /\ pc' = [pc EXCEPT ![t] = "lock"]
            /\ UNCHANGED <<available, acquired, times_acquired, locked, held>>
    /\ UNCHANGED <<config, closed, conn_none, next_id, notify_tasks, err, initv,
                   closev, hist>>

\* the freed lock is granted to a caller queued at `async with`, or to a
\* notified waiter that re-acquires it inside wait(); it then runs the loop
EnterLoop(t) ==
    /\ pc[t] \in {"lock", "woken"}
    /\ locked = 0
    /\ Decide(t)
    /\ hist' = hist \cup AcquireFlags
    /\ UNCHANGED <<config, closed, conn_none, next_id, notify_tasks, err, initv, closev>>

\* _get_connection returned inside acquire (lines 189-191)
OpenDone(t) ==
    /\ pc[t] = "opening"
    /\ next_id <= MaxConnIds
    /\ times_acquired' = increment_acquired(next_id)
    /\ acquired' = Append(acquired, next_id)
    /\ next_id' = next_id + 1
    /\ Return(t, next_id)
    /\ hist' = hist \cup AcquireFlags
    /\ UNCHANGED <<config, available, closed, conn_none, notify_tasks, err, initv, closev>>

\* mutant: the lock stays with the caller whose open raised
LockAfterRaiseMut(t) == t

\* the lock after an exception left the `async with` block of caller t
LockAfterRaise(t) == 0

\* Connection.open raised inside acquire: the exception leaves the
\* `async with` block (lock freed) and acquire
OpenFail(t) ==
    /\ pc[t] = "opening"
    /\ pc' = [pc EXCEPT ![t] = "raised"]
    /\ err' = [err EXCEPT ![t] = 185]
    /\ locked' = LockAfterRaise(t)
    /\ hist' = hist \cup AcquireFlags
    /\ UNCHANGED <<config, available, acquired, times_acquired, closed, conn_none,
                   next_id, notify_tasks, held, initv, closev>>

\* ---------------------------------------------------------------- release

\* the line of release() that raises for connection c, 0 when none does:
\*   83  conn.closed reads self._conn.closed with _conn = None (AttributeError)
\*   154 self._acquired.remove(conn), conn not in the deque (ValueError)
\*   158 the same after the decrement reached 0 (ValueError)
ReleaseRaises(c) ==
    IF c \in conn_none THEN 83
    ELSE IF closed[c] THEN (IF c \in Range(acquired) THEN 0 ELSE 154)
    ELSE IF times_acquired[c] - 1 # 0 THEN 0
    ELSE IF c \in Range(acquired) THEN 0 ELSE 158

\* mutant: release forgets `self._acquired.remove(conn)`
ReleaseAcquiredMut(c) == acquired

\* _acquired after release(c) (lines 153-158)
ReleaseAcquired(c) ==
    IF c \notin Range(acquired) THEN acquired
    ELSE IF closed[c] \/ times_acquired[c] - 1 = 0 THEN Remove(acquired, c)
    ELSE acquired

\* mutant: release forgets `self._available.append(conn)`
ReleaseAvailableMut(c) == available

\* _available after release(c) (line 159)
ReleaseAvailable(c) ==
    IF ~closed[c] /\ times_acquired[c] - 1 = 0 /\ c \in Range(acquired)
    THEN Append(available, c)
    ELSE available

\* mutant: release decrements before it looks at conn.closed
ReleaseTimesMut(c) == decrement_acquired(c)

\* the counters after release(c) (line 156)
ReleaseTimes(c) ==
    IF closed[c] THEN times_acquired ELSE decrement_acquired(c)

\* notifications release(c) schedules (line 160)
ReleaseNotifies(c) == IF ReleaseRaises(c) = 0 THEN 1 ELSE 0

\* PooledConnection.release() by the holder: ConnectionPool.release(conn)
Release(t) ==
    /\ pc[t] = "holding"
    /\ notify_tasks + ReleaseNotifies(held[t]) <= MaxNotify
    /\ IF ReleaseRaises(held[t]) = 83
       THEN UNCHANGED <<available, acquired, times_acquired>>
       ELSE /\ acquired' = ReleaseAcquired(held[t])
            /\ available' = ReleaseAvailable(held[t])
            /\ times_acquired' = ReleaseTimes(held[t])
    /\ notify_tasks' = notify_tasks + ReleaseNotifies(held[t])
    /\ pc' = [pc EXCEPT ![t] = IF ReleaseRaises(held[t]) = 0 THEN "idle" ELSE "raised"]
    /\ err' = [err EXCEPT ![t] = ReleaseRaises(held[t])]
    /\ held' = [held EXCEPT ![t] = 0]
    /\ hist' = hist \cup {"released"}
                  \cup Flag(\E u \in Tasks : pc[u] = "waiting", "wake_owed")
    /\ UNCHANGED <<config, closed, conn_none, next_id, locked, initv, closev>>

\* a _notify task runs: takes the lock, notify() wakes one waiter if any
Notify ==
    /\ notify_tasks > 0
    /\ locked = 0
    /\ notify_tasks' = notify_tasks - 1
    /\ \/ /\ \A t \in Tasks : pc[t] # "waiting"
          /\ pc' = pc
          /\ hist' = hist
       \/ /\ \E t \in Tasks :
                /\ pc[t] = "waiting"
                /\ pc' = [pc EXCEPT ![t] = "woken"]
          /\ hist' = hist \ {"wake_owed"}
    /\ UNCHANGED <<config, available, acquired, times_acquired, closed, conn_none,
                   next_id, locked, held, err, initv, closev>>

\* ------------------------------------------------------------- Connection

\* the transport of a connection in use drops: Connection.closed turns True
ConnCloses(c) ==
    /\ c < next_id
    /\ ~closed[c]
    /\ c \in Range(available) \cup Range(acquired) \cup {held[t] : t \in Tasks}
    /\ closed' = [closed EXCEPT ![c] = TRUE]
    /\ UNCHANGED <<config, available, acquired, times_acquired, conn_none, next_id,
                   locked, notify_tasks, pc, held, err, initv, closev, hist>>

\* ------------------------------------------------------------------ close

\* mutant: close() lacks its second loop, the one that drains _acquired
CloseLeavesAcquiredMut == acquired

\* _acquired once `while self._acquired: ... popleft()` ended (lines 209-211)
CloseLeavesAcquired == <<>>

\* the connections close() popped and put in `waiters` (lines 206-211)
CloseDrained == Range(available) \cup (Range(acquired) \ Range(CloseLeavesAcquired))

\* ConnectionPool.close() up to `await asyncio.gather`
CloseCall ==
    /\ close_pc = "idle"
    /\ waiters' = CloseDrained
    /\ close_pending' = CloseDrained
    /\ available' = <<>>
    /\ acquired' = CloseLeavesAcquired
    /\ close_pc' = IF CloseDrained = {} THEN "done" ELSE "closing"
    /\ UNCHANGED <<config, times_acquired, closed, conn_none, next_id, locked,
                   notify_tasks, pc, held, err, initv, hist>>

\* mutant: PooledConnection.close drops its references without closing
ClosedAfterCloseMut(c) == closed

\* Connection.closed once `await self._conn.close()` returned for c (line 72)
ClosedAfterClose(c) == [closed EXCEPT ![c] = TRUE]

\* PooledConnection.close() of one drained connection completes
CloseConnDone(c) ==
    /\ c \in close_pending
    /\ closed' = ClosedAfterClose(c)
    /\ conn_none' = conn_none \cup {c}
    /\ close_pending' = close_pending \ {c}
    /\ close_pc' = IF close_pc = "closing" /\ close_pending = {c} THEN "done" ELSE close_pc
    /\ UNCHANGED <<config, available, acquired, times_acquired, next_id, locked,
                   notify_tasks, pc, held, err, initv, waiters, hist>>

\* Connection.close() of one drained connection raises: gather re-raises the
\* first exception to close() at once, the other closes keep running
CloseConnFail(c) ==
    /\ c \in close_pending
    /\ close_pending' = close_pending \ {c}
    /\ close_pc' = IF close_pc = "closing" THEN "raised" ELSE close_pc
    /\ UNCHANGED <<config, available, acquired, times_acquired, closed, conn_none,
                   next_id, locked, notify_tasks, pc, held, err, initv, waiters, hist>>

\* ------------------------------------------------------------------- Next

DoAcquireCall == \E t \in Tasks : AcquireCall(t)
DoEnterLoop == \E t \in Tasks : EnterLoop(t)
DoOpenDone == \E t \in Tasks : OpenDone(t)
DoOpenFail == \E t \in Tasks : OpenFail(t)
DoRelease == \E t \in Tasks : Release(t)
DoConnCloses == \E c \in ConnIds : ConnCloses(c)
DoCloseConnDone == \E c \in ConnIds : CloseConnDone(c)
DoCloseConnFail == \E c \in ConnIds : CloseConnFail(c)

\* the pool in operation: init_pool, acquire, release, stale connections
Next ==
    \/ InitPoolCall
    \/ InitOpenDone
    \/ InitOpenFail
    \/ DoAcquireCall
    \/ DoEnterLoop
    \/ DoOpenDone
    \/ DoOpenFail
    \/ DoRelease
    \/ Notify
    \/ DoConnCloses

Spec == Init /\ [][Next]_vars

\* the pool in operation and its shutdown: close() may be called at any moment
InitClose ==
    \E maxc \in 1..MaxConnsBound, maxt \in 1..MaxTimesBound :
        \E minc \in 0..maxc : InitWith(maxc, minc, maxt, CloseTasks)

NextClose ==
    \/ InitPoolCall
    \/ InitOpenDone
    \/ InitOpenFail
    \/ DoAcquireCall
    \/ DoEnterLoop
    \/ DoOpenDone
    \/ DoOpenFail
    \/ DoRelease
    \/ Notify
    \/ DoConnCloses
    \/ CloseCall
    \/ DoCloseConnDone
    \/ DoCloseConnFail

SpecClose == InitClose /\ [][NextClose]_vars

\* the scenarios of the specification's section 8: init_pool completes, then
\* the callers acquire and release concurrently; no connection goes stale, no
\* open fails, the pool is not closed
NextScenario ==
    \/ InitPoolCall
    \/ InitOpenDone
    \/ init_pc = "done" /\ DoAcquireCall
    \/ init_pc = "done" /\ DoEnterLoop
    \/ init_pc = "done" /\ DoOpenDone
    \/ DoRelease
    \/ Notify

\* Scenario A: max_conns = 1, max_times_acquired = 3, four callers
InitA == \E minc \in 0..1 : InitWith(1, minc, 3, 4)
SpecA == InitA /\ [][NextScenario]_vars

\* Scenario B: max_conns = 2, min_conns = 1, max_times_acquired = 1, three callers
InitB == InitWith(2, 1, 1, 3)
SpecB == InitB /\ [][NextScenario]_vars

\* a pool of one or two connections, each shared by up to two or three of
\* four callers, with no connection closing underneath
InitRoundRobin ==
    \E maxc \in 1..2, minc \in 0..1, maxt \in 2..3 : InitWith(maxc, minc, maxt, 4)
SpecRoundRobin == InitRoundRobin /\ [][NextScenario]_vars

\* ------------------------------------------------------------- scheduling

\* a pool of one connection shared by up to two of four callers, used without
\* init_pool; the connection may close underneath its holders
NextShared ==
    \/ DoAcquireCall
    \/ DoEnterLoop
    \/ DoOpenDone
    \/ DoOpenFail
    \/ DoRelease
    \/ Notify
    \/ DoConnCloses

InitShared == InitWith(1, 0, 2, 4)
SpecShared == InitShared /\ [][NextShared]_vars

\* Fair scheduling.  The event loop runs every task that is ready: a _notify
\* task and an acquirer that was woken or that queues for the lock get the
\* lock in turn (asyncio locks are first come, first served), however often
\* other tasks take it in between, and an open that was started completes or
\* fails.  Callers are not obliged to call acquire or release, and a
\* connection need not close.
Fairness ==
    /\ SF_vars(Notify)
    /\ SF_vars(DoEnterLoop)
    /\ WF_vars(DoOpenDone \/ DoOpenFail)

SpecSharedFair == SpecShared /\ Fairness

\* ----------------------------------------------------------- cancellation

\* The task of caller t is cancelled while acquire is suspended in
\* `await self._condition.wait()` (line 201).  acquire has no handler around
\* that await, so what happens is what asyncio.Condition.wait does with the
\* CancelledError: the caller's future leaves the wait set (a future notify()
\* skips it), and a notification already delivered to it ("woken") is spent;
\* wait() takes the lock back before it lets the error out.
Cancel(t) ==
    /\ pc[t] \in {"waiting", "woken"}
    /\ pc' = [pc EXCEPT ![t] = "cancelling"]
    /\ UNCHANGED <<config, available, acquired, times_acquired, closed, conn_none,
                   next_id, locked, notify_tasks, held, err, initv, closev, hist>>

\* the cancelled caller got the lock back inside wait(); CancelledError leaves
\* the `async with` block, which frees the lock, and then acquire
CancelExit(t) ==
    /\ pc[t] = "cancelling"
    /\ locked = 0
    /\ pc' = [pc EXCEPT ![t] = "raised"]
    /\ err' = [err EXCEPT ![t] = 201]
    /\ UNCHANGED <<config, available, acquired, times_acquired, closed, conn_none,
                   next_id, locked, notify_tasks, held, initv, closev, hist>>

DoCancel == \E t \in Tasks : Cancel(t)
DoCancelExit == \E t \in Tasks : CancelExit(t)

\* a pool used without init_pool, whose callers may abandon a waiting acquire
NextCancel ==
    \/ DoAcquireCall
    \/ DoEnterLoop
    \/ DoOpenDone
    \/ DoOpenFail
    \/ DoRelease
    \/ Notify
    \/ DoCancel
    \/ DoCancelExit

InitCancel == \E maxt \in 1..2 : InitWith(1, 0, maxt, 3)
SpecCancel == InitCancel /\ [][NextCancel]_vars

\* ------------------------------------------------------- claim vocabulary

Tracked == Range(available) \cup Range(acquired)
Created == 1..(next_id - 1)
Holders == {t \in Tasks : pc[t] = "holding"}
HoldersOf(c) == {t \in Tasks : pc[t] = "holding" /\ held[t] = c}

\* caller t's acquire returns in this step / caller t calls release in this step
Returns(t) == pc[t] # "holding" /\ pc'[t] = "holding"
Releases(t) == pc[t] = "holding" /\ pc'[t] # "holding"

\* ----------------------------------------------------------------- claims

\* C1: in every reachable state |available| + |acquired| <= max_conns.
\* Stated as claimed; the code breaks it when acquire opens a connection while
\* init_pool is suspended in its own open.
C1_CapacityBound == Len(available) + Len(acquired) <= max_conns

\* C2: acquire never returns a PooledConnection whose Connection reports
\* closed at the moment of return, whichever branch produces it.  Stated as
\* claimed; the multiplex branch of the code returns a connection that was
\* closed while held in acquired.
C2_NeverReturnsClosed ==
    [][\A t \in Tasks : Returns(t) => ~closed'[held'[t]]]_vars

\* C3: every tracked connection occurs exactly once across available and
\* acquired, it is in available iff its times_acquired is 0, and a release
\* that brings the counter to 0 moves it from acquired to available.
C3_TrackedOnce ==
    /\ Cardinality(Tracked) = Len(available) + Len(acquired)
    /\ \A c \in Tracked : (c \in Range(available)) <=> (times_acquired[c] = 0)

C3_MovedOnce ==
    \A t \in Tasks :
        (Releases(t) /\ ~closed[held[t]] /\ times_acquired[held[t]] = 1)
            => /\ held[t] \in Range(acquired)
               /\ held[t] \notin Range(available)
               /\ held[t] \in Range(available')
               /\ held[t] \notin Range(acquired')

C3_ExactlyOnce == [](C3_TrackedOnce) /\ [][C3_MovedOnce]_vars

C3_Witness ==
    /\ "released" \in hist
    /\ available # <<>>
    /\ acquired # <<>>
    /\ \E c \in Range(acquired) : times_acquired[c] > 1

\* C4: 0 <= times_acquired <= max_times_acquired for every PooledConnection
\* the pool created, in every reachable state.
C4_CounterRange ==
    \A c \in Created : 0 <= times_acquired[c] /\ times_acquired[c] <= max_times_acquired

C4_Witness ==
    /\ max_times_acquired = 2
    /\ "released" \in hist
    /\ \E c \in Range(acquired) : times_acquired[c] = 2
    /\ \E t \in Tasks : pc[t] = "waiting"

\* C5 (Scenario A, max_conns = 1, max_times_acquired = 3): all callers holding
\* a connection hold the same one, its counter is the number of its holders,
\* and never more than three hold it: a fourth acquire has not returned while
\* the counter is 3.
C5_ScenarioA ==
    /\ \A t, u \in Holders : held[t] = held[u]
    /\ \A t \in Holders : times_acquired[held[t]] = Cardinality(Holders)
    /\ Cardinality(Holders) <= 3

C5_Witness ==
    /\ Cardinality(Holders) = 3
    /\ \E c \in Range(acquired) : times_acquired[c] = 3
    /\ \E t \in Tasks : pc[t] = "waiting"
    /\ "released" \in hist

\* C6 (Scenario B, max_conns = 2, min_conns = 1, max_times_acquired = 1), as
\* claimed: the callers holding connections hold distinct ones and at most two
\* hold any; before the first release every acquire that returns, returns a
\* connection it newly opened; once two connections are open (capacity) an
\* acquire returns only a connection a release put back in available.
C6_Distinct == \A t, u \in Holders : t # u => held[t] # held[u]

C6_AtMostTwo == Cardinality(Holders) <= 2

C6_NewlyOpened ==
    \A t \in Tasks : (Returns(t) /\ "released" \notin hist) => held'[t] = next_id

C6_ThirdGetsReleased ==
    \A t \in Tasks :
        (Returns(t) /\ Cardinality(Created) = max_conns) => held'[t] \in Range(available)

C6_AsClaimed ==
    [](C6_Distinct /\ C6_AtMostTwo) /\ [][C6_NewlyOpened /\ C6_ThirdGetsReleased]_vars

\* C6 as amended: before the first release an acquire returns the idle
\* connection init_pool opened while there is one (reuse), and a newly opened
\* connection otherwise; the rest as claimed.
C6_ReusedThenOpened ==
    \A t \in Tasks :
        (Returns(t) /\ "released" \notin hist)
            => held'[t] = (IF available # <<>> THEN Head(available) ELSE next_id)

C6_ScenarioB ==
    [](C6_Distinct /\ C6_AtMostTwo) /\ [][C6_ReusedThenOpened /\ C6_ThirdGetsReleased]_vars

C6_Witness ==
    /\ Cardinality(Holders) = 2
    /\ Cardinality(Created) = 2
    /\ available = <<>>
    /\ \E t \in Tasks : pc[t] = "waiting"
    /\ "released" \in hist

\* C7: releasing a connection whose Connection is closed leaves it in neither
\* collection and leaves its counter as it was, and a closed connection that
\* is in neither collection is in neither collection in the next state.
C7_Dropped ==
    \A t \in Tasks :
        (Releases(t) /\ closed[held[t]])
            => /\ held[t] \notin Tracked'
               /\ times_acquired'[held[t]] = times_acquired[held[t]]

C7_StaysOut ==
    \A c \in Created : (closed[c] /\ c \notin Tracked) => c \notin Tracked'

C7_ClosedReleaseDrops == [][C7_Dropped /\ C7_StaysOut]_vars

C7_Witness ==
    \E c \in Created :
        /\ closed[c]
        /\ c \notin Tracked
        /\ times_acquired[c] = 2
        /\ HoldersOf(c) # {}
        /\ "released" \in hist

\* C8: every call of release by a holder schedules exactly one notification.
\* Stated as claimed; in the code the second holder's release of a closed
\* shared connection raises before the notification is scheduled.
C8_EveryReleaseNotifies ==
    [][\A t \in Tasks : Releases(t) => notify_tasks' = notify_tasks + 1]_vars

\* C9: a stale connection never surfaces as an error: no release raises.
\* Stated as claimed; in the code the second holder's release of a closed
\* shared connection raises ValueError at line 154.
C9_StaleNeverRaises == \A t \in Tasks : err[t] \notin {83, 154, 158}

\* C10, as claimed: when close() returns and no step of acquire ran after
\* close began, both collections are empty and every connection close()
\* drained reports closed.
C10_Closed ==
    /\ available' = <<>>
    /\ acquired' = <<>>
    /\ \A c \in waiters' : closed'[c]

C10_CloseReturns == close_pc # "done" /\ close_pc' = "done"

C10_AsClaimed ==
    [][(C10_CloseReturns /\ "acquire_after_close" \notin hist') => C10_Closed]_vars

\* C10 as amended: ... and no step of init_pool ran after close began either.
C10_CloseClosesAll ==
    [][(C10_CloseReturns /\ hist' \cap {"acquire_after_close", "init_after_close"} = {})
           => C10_Closed]_vars

C10_Witness ==
    /\ close_pc = "done"
    /\ Cardinality(waiters) = 2
    /\ \E c \in waiters : times_acquired[c] > 0
    /\ \E c \in waiters : times_acquired[c] = 0
    /\ hist \cap {"acquire_after_close", "init_after_close"} = {}

\* C11: close() does not return, normally or with an error, before every
\* close operation it issued has finished.  Stated as claimed; the code awaits
\* asyncio.gather with its default return_exceptions=False, which re-raises
\* the first failure to close() while the other closes are still in flight.
C11_CloseJoinsAll == close_pc \in {"done", "raised"} => close_pending = {}

\* C12: while an acquire call is suspended opening a new connection in the
\* create branch, the pool's lock is not held, so that another acquire can run
\* its decision during the suspension.  Stated as claimed; the code awaits the
\* open inside "async with self._condition" (lines 176-188) and keeps the lock.
C12_LockFreeWhileOpening == \A t \in Tasks : pc[t] = "opening" => locked = 0

\* C13: when the factory fails during init_pool or in the create branch, the
\* error reaches that caller, the failed attempt enters neither collection,
\* the lock is free again, every other connection's membership and counter
\* and every other caller are untouched, and the lock is never left with a
\* caller that is gone, so later acquire and release calls proceed.
C13_OpenFailureContained ==
    /\ [](\A t \in Tasks : pc[t] = "raised" => locked # t)
    /\ [][/\ \A t \in Tasks :
               pc[t] = "opening" /\ pc'[t] = "raised" =>
                   /\ err'[t] = 185
                   /\ locked' = 0
                   /\ held' = held
                   /\ \A u \in Tasks \ {t} : pc'[u] = pc[u]
                   /\ UNCHANGED <<available, acquired, times_acquired, next_id,
                                  closed, init_pc>>
          /\ init_pc = "opening" /\ init_pc' = "raised" =>
                   UNCHANGED <<available, acquired, times_acquired, next_id,
                               closed, locked, pc, held>>]_vars

\* an open failed in init_pool and one in acquire, and a later acquire (it
\* holds the lock the failed one had) is under way
C13_Witness ==
    /\ init_pc = "raised"
    /\ \E t, u \in Tasks : /\ pc[t] = "raised" /\ err[t] = 185
                           /\ pc[u] = "opening" /\ locked = u

\* C14: after init_pool() completes on a fresh pool (no acquire or release has
\* run) with min_conns = N, available holds exactly N distinct connections,
\* each with times_acquired 0, and acquired is empty; the opens are sequential:
\* while the open numbered init_i is in flight, exactly the init_i earlier
\* ones have completed and been appended.
Fresh == "released" \notin hist /\ \A t \in Tasks : pc[t] = "idle"

C14_InitPoolFills ==
    Fresh =>
        /\ acquired = <<>>
        /\ Len(available) = init_i
        /\ Cardinality(Range(available)) = Len(available)
        /\ \A c \in Range(available) : times_acquired[c] = 0
        /\ init_pc = "idle" => init_i = 0
        /\ init_pc = "opening" => init_i < min_conns
        /\ init_pc = "done" => init_i = min_conns

C14_Witness ==
    /\ Fresh
    /\ init_pc = "done"
    /\ min_conns = 2
    /\ Len(available) = 2

\* C15: a caller that cancels an acquire suspended on the condition leaves the
\* wait set without disturbing any other caller and without consuming a
\* pending notification; if it had already been notified (the cancellation
\* races with the delivery) while another acquirer is still blocked, a
\* notification is re-armed or that acquirer is woken.  Stated as claimed;
\* the code has nothing that re-arms.
C15_CancelKeepsWakeups ==
    [][\A t \in Tasks :
          pc[t] \in {"waiting", "woken"} /\ pc'[t] = "cancelling" =>
              /\ notify_tasks' >= notify_tasks
              /\ \A u \in Tasks \ {t} : pc'[u] = pc[u]
                                        \/ (pc[u] = "waiting" /\ pc'[u] = "woken")
              /\ (pc[t] = "woken" /\ \E u \in Tasks : pc[u] = "waiting") =>
                     \/ notify_tasks' > notify_tasks
                     \/ \E u \in Tasks : pc[u] = "waiting" /\ pc'[u] = "woken"]_vars

\* C16: the reuse/create/multiplex decision of one acquire call is atomic with
\* respect to every other acquire call: while a caller is part-way through its
\* decision (suspended in the open of the create branch) it has the lock, and
\* no other caller completes a decision, i.e. none starts an open, returns a
\* connection or starts to wait.
C16_DecisionAtomic ==
    /\ [](\A t \in Tasks : pc[t] = "opening" => locked = t)
    /\ [][\A t, u \in Tasks :
             (t # u /\ pc[t] = "opening" /\ pc'[u] # pc[u]) =>
                 pc'[u] \notin {"opening", "holding", "waiting"}]_vars

\* a caller is suspended in its open, a release has put a connection back in
\* available meanwhile, and another acquire call is kept out at the lock
C16_Witness ==
    \E t, u \in Tasks : /\ pc[t] = "opening"
                        /\ pc[u] = "lock"
                        /\ \E c \in Range(available) : ~closed[c]
                        /\ "released" \in hist

\* C17: an acquire that finds an open connection in available returns the
\* oldest open one (available is a FIFO queue that grows only at the back),
\* with its counter incremented to 1 and appended to acquired; every closed
\* entry in front of it is in neither collection afterwards, and the entries
\* behind it stay in available in their order.
FirstOpen ==
    IF \E i \in 1..Len(available) : ~closed[available[i]]
    THEN CHOOSE i \in 1..Len(available) :
             /\ ~closed[available[i]]
             /\ \A k \in 1..(i - 1) : closed[available[k]]
    ELSE 0

C17_ReuseFifo ==
    /\ [][\/ \E i \in 0..Len(available) :
                 available' = SubSeq(available, i + 1, Len(available))
          \/ \E c \in ConnIds : available' = Append(available, c)]_vars
    /\ [][\A t \in Tasks :
             (/\ pc[t] \in {"idle", "lock", "woken"}
              /\ pc'[t] \in {"holding", "opening", "waiting"}
              /\ FirstOpen > 0) =>
                 /\ pc'[t] = "holding"
                 /\ held'[t] = available[FirstOpen]
                 /\ times_acquired'[held'[t]] = 1
                 /\ acquired' = Append(acquired, available[FirstOpen])
                 /\ available' = SubSeq(available, FirstOpen + 1, Len(available))
                 /\ \A k \in 1..(FirstOpen - 1) :
                        available[k] \notin Range(available') \cup Range(acquired')]_vars

\* a closed connection was dropped from the front of available (it is tracked
\* nowhere and nobody holds it), a caller holds a connection taken from
\* available and an entry is still waiting behind
C17_Witness ==
    /\ \E c \in Created : closed[c] /\ c \notin Tracked /\ times_acquired[c] = 0
    /\ \E t \in Tasks : /\ pc[t] = "holding"
                        /\ ~closed[held[t]]
                        /\ times_acquired[held[t]] = 1
    /\ \E c \in Range(available) : ~closed[c]

\* C18: an acquire that can neither reuse nor create makes one pass over
\* acquired in queue order: it returns the first entry under its budget,
\* incremented by one, having moved the entries examined before it and then
\* the entry itself to the back; when no entry is under budget it goes to wait
\* with acquired as it was.  Hence successive saturated acquires go round the
\* connections: as long as nothing has been released, the counters of the
\* connections in acquired never differ by more than one.
UnderBudget(i) == times_acquired[acquired[i]] < max_times_acquired

FirstUnder ==
    IF \E i \in 1..Len(acquired) : UnderBudget(i)
    THEN CHOOSE i \in 1..Len(acquired) :
             UnderBudget(i) /\ \A k \in 1..(i - 1) : ~UnderBudget(k)
    ELSE 0

C18_MultiplexRoundRobin ==
    /\ []("released" \notin hist =>
             \A a, b \in Range(acquired) :
                 times_acquired[a] - times_acquired[b] <= 1)
    /\ [][\A t \in Tasks :
             (/\ pc[t] \in {"idle", "lock", "woken"}
              /\ pc'[t] \in {"holding", "opening", "waiting"}
              /\ FirstOpen = 0
              /\ Len(acquired) >= max_conns) =>
                 IF FirstUnder > 0
                 THEN /\ pc'[t] = "holding"
                      /\ held'[t] = acquired[FirstUnder]
                      /\ times_acquired' =
                             [times_acquired EXCEPT ![acquired[FirstUnder]] = @ + 1]
                      /\ Len(acquired') = Len(acquired)
                      /\ acquired'[Len(acquired)] = acquired[FirstUnder]
                      /\ \A k \in 1..(FirstUnder - 1) :
                             acquired'[Len(acquired) - FirstUnder + k] = acquired[k]
                      /\ \A k \in (FirstUnder + 1)..Len(acquired) :
                             acquired'[k - FirstUnder] = acquired[k]
                 ELSE /\ pc'[t] = "waiting"
                      /\ acquired' = acquired
                      /\ times_acquired' = times_acquired]_vars

\* two connections, both under budget after the pool filled up, and the two
\* saturated acquires that followed (nothing was released) took one each
C18_Witness ==
    /\ "released" \notin hist
    /\ max_conns = 2 /\ max_times_acquired = 3
    /\ Len(acquired) = 2
    /\ \A c \in Range(acquired) : times_acquired[c] = 2
    /\ \A t \in Tasks : pc[t] = "holding"

\* C19: under fair scheduling, whenever a release has happened while an
\* acquirer was blocked on the condition, some blocked acquirer is eventually
\* woken.  Stated as claimed ("wake_owed" is set by such a release and
\* cleared when a waiter is woken); in the code a release that raises
\* schedules no notification.
C19_ReleaseWakes == ("wake_owed" \in hist) ~> ("wake_owed" \notin hist)

\* C20: no waiter is stranded while capacity exists: whenever an acquirer is
\* blocked on the condition, no _notify task is pending and no woken acquirer
\* has yet to run (read here in the claim's favour: no other acquire call is
\* part-way through, be it woken, queued for the lock or opening), available
\* holds no open connection, the pool is at max_conns and every connection in
\* acquired has used up its budget.  Stated as claimed; the code breaks it
\* once a shared connection has closed.
C20_NoStrandedWaiter ==
    (/\ \E t \in Tasks : pc[t] = "waiting"
     /\ notify_tasks = 0
     /\ \A t \in Tasks : pc[t] \notin {"woken", "lock", "opening"}) =>
        /\ \A c \in Range(available) : closed[c]
        /\ Len(available) + Len(acquired) = max_conns
        /\ \A c \in Range(acquired) : times_acquired[c] = max_times_acquired

\* C21: wherever acquire evaluates the create guard, i.e. in an iteration
\* whose reuse loop returned nothing, available has been emptied, so the
\* guard of the code agrees with |acquired| + |available| < max_conns: the
\* caller starts an open exactly when that sum is below max_conns.  The open,
\* once it returns, yields a connection that was tracked nowhere, appended to
\* acquired with counter 1, and available is not touched by it.
C21_CreateGuardAgrees ==
    /\ [][\A t \in Tasks :
             (/\ pc[t] \in {"idle", "lock", "woken"}
              /\ pc'[t] \in {"holding", "opening", "waiting"}
              /\ FirstOpen = 0) =>
                 /\ available' = <<>>
                 /\ pc'[t] = "opening" <=>
                        Len(acquired') + Len(available') < max_conns
                 /\ pc'[t] = "opening" => acquired' = acquired]_vars
    /\ [][\A t \in Tasks :
             (pc[t] = "opening" /\ pc'[t] = "holding") =>
                 /\ held'[t] \notin Tracked
                 /\ times_acquired[held'[t]] = 0
                 /\ times_acquired'[held'[t]] = 1
                 /\ acquired' = Append(acquired, held'[t])
                 /\ available' = available]_vars

\* a pool of two with one connection acquired: the reuse loop dropped a closed
\* connection from available and the caller is now opening a new one
C21_Witness ==
    /\ max_conns = 2
    /\ Len(acquired) = 1
    /\ \E t \in Tasks : pc[t] = "opening" /\ locked = t
    /\ \E c \in Created : closed[c] /\ c \notin Tracked /\ times_acquired[c] = 0

====
